---- MODULE Spec2Model ----
(***************************************************************************)
(* A model of awair_exporter (src/main.go): the device-list parser         *)
(* parseDevices and the Prometheus collector that scrapes every registered *)
(* Awair device concurrently, one goroutine per device, joined by a        *)
(* sync.WaitGroup.                                                         *)
(*                                                                         *)
(* Strings that the program indexes (the command line tokens) are          *)
(* sequences of one-character strings.  float64 values are binary64        *)
(* values, and each float64 operation is rounded as the machine rounds it. *)
(* The metrics channel is a bag: the program gives no order between the    *)
(* sends of different goroutines, and the receiver (the Prometheus         *)
(* registry) always accepts.                                               *)
(***************************************************************************)
EXTENDS Bags, FiniteSets, Integers, Sequences, TLC

VARIABLES
    args,        \* parseDevices: the argument list handed to it
    parsed,      \* parseDevices: what it returned, [called, devices, isNil, err]
    DeviceAddrs, \* collector.DeviceAddrs: device name -> scrape address
    descs,       \* the collector's descriptor fields, Errors to Pm10Est
    collectPc,   \* position of the caller inside Collect
    wg,          \* the sync.WaitGroup counter of the running Collect
    ch,          \* metrics sent on the channel of the running Collect (a bag)
    taskPc,      \* position of each device's goroutine
    requests,    \* the URLs each goroutine has requested in this cycle
    getErr,      \* the error Client.Get returned ("none" when it returned a response)
    status,      \* resp.StatusCode (0 before a response)
    body,        \* the response body the decoder read, as its BodyId
    bodyOpen,    \* resp.Body is open (closed by the deferred Close)
    airData,     \* the decoded airData struct of each goroutine
    sendIdx,     \* number of gauges the goroutine has sent
    describePc,  \* position of the caller inside Describe
    described,   \* the descriptors the running or the last Describe has sent
    describedBefore, \* history: an earlier call of Describe has returned
    failedBefore \* history: an earlier Collect cycle sent an error indicator

vars == <<args, parsed, DeviceAddrs, descs, collectPc, wg, ch, taskPc, requests,
          getErr, status, body, bodyOpen, airData, sendIdx, describePc,
          described, describedBefore, failedBefore>>

parseVars == <<args, parsed>>

collectVars == <<DeviceAddrs, descs, collectPc, wg, ch, taskPc, requests,
                 getErr, status, body, bodyOpen, airData, sendIdx>>

describeVars == <<describePc, described, describedBefore>>

otherVars == <<args, parsed, describePc, described, describedBefore,
               failedBefore>>

(***************************************************************************)
(* Bounds of the model.                                                    *)
(***************************************************************************)
MaxDevices == 2
MaxArgs == 2
MaxTokLen == 3

(***************************************************************************)
(* float64.                                                                *)
(*                                                                         *)
(* A natural number is the sequence of its bits, the least significant     *)
(* first and the last one 1 (<<>> is zero).  A float64 is the record       *)
(* [inf, sign, man, exp]: unless inf, its value is sign * man * 2^exp with *)
(* man odd or zero, so that a value has one record.  Every operation is    *)
(* the exact result rounded to the nearest float64, ties to the even       *)
(* significand (53 bits, or fewer below 2^-1022), +-Inf from 2^1024 on.    *)
(* None of the operations the program applies can yield a NaN.             *)
(*                                                                         *)
(* An operand or an intermediate result e that is used more than once is   *)
(* given its name v by TheOne({F(v) : v \in {e}}), which is F(e) with e    *)
(* computed once.                                                          *)
(***************************************************************************)
Abs(x) == IF x < 0 THEN -x ELSE x

Max(x, y) == IF x > y THEN x ELSE y

Min(x, y) == IF x < y THEN x ELSE y

TheOne(S) == CHOOSE x \in S : TRUE

RECURSIVE NatBits(_)
NatBits(n) == IF n = 0 THEN <<>> ELSE <<n % 2>> \o NatBits(n \div 2)

\* b without the zeros at its top
Trim(b_) ==
    TheOne({
        IF \A i \in 1..Len(b) : b[i] = 0
        THEN <<>>
        ELSE SubSeq(b, 1, CHOOSE i \in 1..Len(b) :
                            b[i] = 1 /\ \A j \in (i + 1)..Len(b) : b[j] = 0)
        : b \in {b_}})

Zeros(n) == [i \in 1..n |-> 0]

\* b * 2^n
ShiftLeft(b_, n) == TheOne({IF b = <<>> THEN b ELSE Zeros(n) \o b : b \in {b_}})

\* b made n bits wide
Pad(b_, n) == TheOne({b \o Zeros(n - Len(b)) : b \in {b_}})

\* the number of zeros below the lowest 1 of a b that is not zero
LowZeros(b_) ==
    TheOne({
        (CHOOSE i \in 1..Len(b) : b[i] = 1 /\ \A j \in 1..(i - 1) : b[j] = 0) - 1
        : b \in {b_}})

\* the sums below work on the two halves of their operands in turn, the
\* carry of the low half going into the high half

\* a + b + c for a and b of one width and a carry c: the bits s of that
\* width and the carry out c
RECURSIVE AddCarry(_, _, _)
AddCarry(a_, b_, c_) ==
    TheOne({
        IF Len(a) = 0
        THEN [s |-> <<>>, c |-> c]
        ELSE IF Len(a) = 1
        THEN [s |-> <<(a[1] + b[1] + c) % 2>>, c |-> (a[1] + b[1] + c) \div 2]
        ELSE TheOne({
                TheOne({[s |-> lo.s \o hi.s, c |-> hi.c]
                        : hi \in {AddCarry(SubSeq(a, Len(a) \div 2 + 1, Len(a)),
                                           SubSeq(b, Len(a) \div 2 + 1, Len(a)),
                                           lo.c)}})
                : lo \in {AddCarry(SubSeq(a, 1, Len(a) \div 2),
                                   SubSeq(b, 1, Len(a) \div 2), c)}})
        : <<a, b, c>> \in {<<a_, b_, c_>>}})

\* a + b + c, c a carry of 0 or 1
AddBits(a_, b_, c) ==
    TheOne({
        TheOne({IF sum.c = 1 THEN sum.s \o <<1>> ELSE sum.s
                : sum \in {AddCarry(Pad(a, Max(Len(a), Len(b))),
                                    Pad(b, Max(Len(a), Len(b))), c)}})
        : <<a, b>> \in {<<a_, b_>>}})

\* a - b - c for a and b of one width and a borrow c: the bits s and the
\* borrow out c
RECURSIVE SubBorrow(_, _, _)
SubBorrow(a_, b_, c_) ==
    TheOne({
        IF Len(a) = 0
        THEN [s |-> <<>>, c |-> c]
        ELSE IF Len(a) = 1
        THEN [s |-> <<(a[1] - b[1] - c + 2) % 2>>,
              c |-> IF a[1] - b[1] - c < 0 THEN 1 ELSE 0]
        ELSE TheOne({
                TheOne({[s |-> lo.s \o hi.s, c |-> hi.c]
                        : hi \in {SubBorrow(SubSeq(a, Len(a) \div 2 + 1, Len(a)),
                                            SubSeq(b, Len(a) \div 2 + 1, Len(a)),
                                            lo.c)}})
                : lo \in {SubBorrow(SubSeq(a, 1, Len(a) \div 2),
                                    SubSeq(b, 1, Len(a) \div 2), c)}})
        : <<a, b, c>> \in {<<a_, b_, c_>>}})

\* a - b for a >= b
SubBits(a_, b) ==
    TheOne({Trim(SubBorrow(a, Pad(b, Len(a)), 0).s) : a \in {a_}})

LessBits(a_, b_) ==
    TheOne({
        \/ Len(a) < Len(b)
        \/ /\ Len(a) = Len(b)
           /\ \E i \in 1..Len(a) :
                /\ a[i] < b[i]
                /\ \A j \in (i + 1)..Len(a) : a[j] = b[j]
        : <<a, b>> \in {<<a_, b_>>}})

\* a * k + c for a small k and a carry c < k: the bits s of the width of a
\* and the carry out c
RECURSIVE MulCarry(_, _, _)
MulCarry(a_, k_, c_) ==
    TheOne({
        IF Len(a) = 0
        THEN [s |-> <<>>, c |-> c]
        ELSE IF Len(a) = 1
        THEN [s |-> <<(a[1] * k + c) % 2>>, c |-> (a[1] * k + c) \div 2]
        ELSE TheOne({
                TheOne({[s |-> lo.s \o hi.s, c |-> hi.c]
                        : hi \in {MulCarry(SubSeq(a, Len(a) \div 2 + 1, Len(a)),
                                           k, lo.c)}})
                : lo \in {MulCarry(SubSeq(a, 1, Len(a) \div 2), k, c)}})
        : <<a, k, c>> \in {<<a_, k_, c_>>}})

\* a * k + c for a small k
MulBits(a, k, c) ==
    TheOne({prod.s \o NatBits(prod.c) : prod \in {MulCarry(a, k, c)}})

\* the quotient q, of the width of a, and the remainder r of
\* (r * 2^Len(a) + a) by a small k, for r < k; the high half first
RECURSIVE DivBits(_, _, _)
DivBits(a_, k_, r_) ==
    TheOne({
        IF Len(a) = 0
        THEN [q |-> <<>>, r |-> r]
        ELSE IF Len(a) = 1
        THEN [q |-> <<IF 2 * r + a[1] >= k THEN 1 ELSE 0>>,
              r |-> IF 2 * r + a[1] >= k THEN 2 * r + a[1] - k ELSE 2 * r + a[1]]
        ELSE TheOne({
                TheOne({[q |-> lo.q \o hi.q, r |-> lo.r]
                        : lo \in {DivBits(SubSeq(a, 1, Len(a) \div 2), k, hi.r)}})
                : hi \in {DivBits(SubSeq(a, Len(a) \div 2 + 1, Len(a)), k, r)}})
        : <<a, k, r>> \in {<<a_, k_, r_>>}})

Infinity(sign) == [inf |-> TRUE, sign |-> sign, man |-> <<>>, exp |-> 0]

\* the float64 sign * man * 2^exp, for a man of at most 53 bits
Finite(sign, man_, exp) ==
    TheOne({
        IF man = <<>>
        THEN [inf |-> FALSE, sign |-> sign, man |-> <<>>, exp |-> 0]
        ELSE [inf |-> FALSE, sign |-> sign,
              man |-> SubSeq(man, LowZeros(man) + 1, Len(man)),
              exp |-> exp + LowZeros(man)]
        : man \in {man_}})

\* the float64 nearest to sign * (man + f) * 2^exp, where 0 < f < 1 if
\* sticky and f = 0 if not (a sticky man has at least 55 bits)
Round(sign_, man_, exp_, sticky_) ==
    TheOne({
        LET L == Len(man)
            drop == Max(Max(L - 53, (-1074) - exp), 0)
            guard == IF drop >= 1 /\ drop <= L THEN man[drop] ELSE 0
            kept == IF drop < L THEN SubSeq(man, drop + 1, L) ELSE <<>>
            rest == sticky \/ \E i \in 1..Min(drop - 1, L) : man[i] = 1
            odd == kept # <<>> /\ kept[1] = 1
        IN  TheOne({
                IF m # <<>> /\ exp + drop + Len(m) > 1024
                THEN Infinity(sign)
                ELSE Finite(sign, m, exp + drop)
                : m \in {IF guard = 1 /\ (rest \/ odd)
                         THEN AddBits(kept, <<>>, 1)
                         ELSE kept}})
        : <<sign, man, exp, sticky>> \in {<<sign_, man_, exp_, sticky_>>}})

PlusZero == Finite(1, <<>>, 0)

\* float64(i) for an int i
IntToFloat(i_) ==
    TheOne({Round(IF i < 0 THEN -1 ELSE 1, NatBits(Abs(i)), 0, FALSE)
            : i \in {i_}})

\* the float64 a JSON number of value n/d (d > 0) is decoded to: the
\* quotient itself where the division by d leaves no remainder, and the
\* quotient to 58 bits and more, rounded, where it does
ParseFloat(n_, d_) ==
    TheOne({
        IF n = 0
        THEN PlusZero
        ELSE LET sign == IF n < 0 THEN -1 ELSE 1
                 s0 == Len(NatBits(d)) - 1
             IN  TheOne({
                    IF res0.r = 0
                    THEN Round(sign, Trim(res0.q), -s0, FALSE)
                    ELSE LET s == Max(0, 58 + Len(NatBits(d)) - Len(num))
                         IN  TheOne({Round(sign, Trim(res.q), -s, res.r # 0)
                                     : res \in {DivBits(ShiftLeft(num, s), d, 0)}})
                    : <<num, res0>> \in
                        {<<NatBits(Abs(n)),
                           DivBits(ShiftLeft(NatBits(Abs(n)), s0), d, 0)>>}})
        : <<n, d>> \in {<<n_, d_>>}})

\* x * k for the float64 of a small positive integer constant k
FloatMul(x_, k) ==
    TheOne({IF x.inf THEN x ELSE Round(x.sign, MulBits(x.man, k, 0), x.exp, FALSE)
            : x \in {x_}})

\* x / k for the float64 of a small positive integer constant k, in the
\* same two cases
FloatDiv(x_, k_) ==
    TheOne({
        IF x.inf \/ x.man = <<>>
        THEN x
        ELSE TheOne({
                IF res0.r = 0
                THEN Round(x.sign, Trim(res0.q), x.exp, FALSE)
                ELSE TheOne({Round(x.sign, Trim(res.q),
                                   x.exp - (58 - Len(x.man)), res.r # 0)
                             : res \in {DivBits(ShiftLeft(x.man, 58 - Len(x.man)),
                                                k, 0)}})
                : res0 \in {DivBits(x.man, k, 0)}})
        : <<x, k>> \in {<<x_, k_>>}})

\* x + k for the float64 of a small positive integer constant k; an x
\* beyond 2^120 absorbs k and an x below 2^-120 is absorbed by it
FloatAdd(x_, k_) ==
    TheOne({
        IF x.inf
        THEN x
        ELSE IF x.man = <<>> \/ x.exp + Len(x.man) < -120
        THEN IntToFloat(k)
        ELSE IF x.exp + Len(x.man) > 120
        THEN x
        ELSE TheOne({
                IF x.sign = 1
                THEN Round(1, AddBits(xm, km, 0), Min(x.exp, 0), FALSE)
                ELSE IF LessBits(xm, km)
                THEN Round(1, SubBits(km, xm), Min(x.exp, 0), FALSE)
                ELSE IF xm = km
                THEN PlusZero
                ELSE Round(-1, SubBits(xm, km), Min(x.exp, 0), FALSE)
                : <<xm, km>> \in
                    {<<ShiftLeft(x.man, x.exp - Min(x.exp, 0)),
                       ShiftLeft(NatBits(k), 0 - Min(x.exp, 0))>>}})
        : <<x, k>> \in {<<x_, k_>>}})

\* tempC*(9/5) + 32 with the quotient of the integer constants, which is 1
celsiusToFahrenheit_IntegerQuotient(tempC) == FloatAdd(tempC, 32)

\* tempC*9/5 + 32, evaluated from the left, each result a float64
celsiusToFahrenheit(tempC) == FloatAdd(FloatDiv(FloatMul(tempC, 9), 5), 32)

(***************************************************************************)
(* The device registry the collector is constructed with.                  *)
(***************************************************************************)
NamePool == <<"kitchen", "office", "attic", "garage">>

AddrPool == <<"10.0.0.1:80", "10.0.0.2:80", "10.0.0.3:80", "10.0.0.4:80">>

DeviceNames == {NamePool[i] : i \in 1..MaxDevices}

AddrOfName(name) == AddrPool[CHOOSE i \in 1..Len(NamePool) : NamePool[i] = name]

\* every registry newCollector can be handed: any set of the names, each
\* with its address
Registries == {[n \in S |-> AddrOfName(n)] : S \in SUBSET DeviceNames}

(***************************************************************************)
(* What a device can answer.                                               *)
(*                                                                         *)
(* A JSON body is [kind, obj]: kind "syntax" is a body that is not JSON    *)
(* (or ends early), kind "timeout" a body whose read the client's timer    *)
(* interrupted, kind "object" a JSON object obj, a function from the keys  *)
(* the decoder knows to JSON values, JAbsent for a key the object lacks.   *)
(***************************************************************************)
JsonKeys == {"timestamp", "score", "dew_point", "temp", "humid", "abs_humid",
             "co2", "co2_est", "co2_est_baseline", "voc", "voc_baseline",
             "voc_h2_raw", "voc_ethanol_raw", "pm25", "pm10_est"}

JAbsent == [t |-> "absent", n |-> 0, d |-> 1, s |-> ""]

JNum(n, d) == [t |-> "num", n |-> n, d |-> d, s |-> ""]

JStr(s) == [t |-> "str", n |-> 0, d |-> 1, s |-> s]

JObject(fields) ==
    [kind |-> "object",
     obj |-> [k \in JsonKeys |-> IF k \in DOMAIN fields THEN fields[k] ELSE JAbsent]]

NoBody == [kind |-> "none", obj |-> [k \in JsonKeys |-> JAbsent]]

BodySyntaxError == [kind |-> "syntax", obj |-> [k \in JsonKeys |-> JAbsent]]

BodyTimeout == [kind |-> "timeout", obj |-> [k \in JsonKeys |-> JAbsent]]

\* a complete reading, every field different, the dew point -2.5
BodyFull ==
    JObject([timestamp |-> JStr("2006-01-02T15:04:05.000Z"),
             score |-> JNum(90, 1), dew_point |-> JNum(-5, 2),
             temp |-> JNum(100, 1), humid |-> JNum(45, 1),
             abs_humid |-> JNum(17, 2), co2 |-> JNum(400, 1),
             co2_est |-> JNum(410, 1), co2_est_baseline |-> JNum(35000, 1),
             voc |-> JNum(20, 1), voc_baseline |-> JNum(37000, 1),
             voc_h2_raw |-> JNum(25, 1), voc_ethanol_raw |-> JNum(36, 1),
             pm25 |-> JNum(3, 1), pm10_est |-> JNum(4, 1)])

\* {"temp": 0, "dew_point": 0}: the other fields are missing
BodyZero == JObject([temp |-> JNum(0, 1), dew_point |-> JNum(0, 1)])

\* {"score": "high"}: a string where the struct has an int
BodyScoreString == JObject([score |-> JStr("high"), temp |-> JNum(20, 1)])

\* {"co2": 400.5}: a fraction where the struct has an int
BodyCo2Fraction == JObject([co2 |-> JNum(801, 2), temp |-> JNum(20, 1)])

Bodies == {BodyFull, BodyZero, BodySyntaxError, BodyScoreString,
           BodyCo2Fraction, BodyTimeout}

\* {"temp": t/10, "dew_point": (t-55)/10}: a reading with one decimal
ReadingBody(t) ==
    JObject([temp |-> JNum(t, 10), dew_point |-> JNum(t - 55, 10)])

\* the temperatures -40.0, -39.9, ... 60.0, and 100.0
ReadingTenths == (-400..600) \cup {1000}

ReadingBodies == {ReadingBody(t) : t \in ReadingTenths}

\* the state records which body a device served by its position in this
\* list, 0 while its body has not been read
BodyList ==
    <<BodyFull, BodyZero, BodySyntaxError, BodyScoreString,
      BodyCo2Fraction, BodyTimeout>> \o [i \in 1..1401 |-> ReadingBody(i - 401)]

BodyId(b) ==
    IF b = NoBody THEN 0 ELSE CHOOSE i \in 1..Len(BodyList) : BodyList[i] = b

BodyOf(i) == IF i = 0 THEN NoBody ELSE BodyList[i]

StatusCodes == {200, 404, 500}

GetErrors == {"refused", "timeout"}

(***************************************************************************)
(* json.Decoder.Decode into the airData struct.  A key the object lacks    *)
(* leaves the field at its zero value; a value of the wrong JSON type for  *)
(* the field (a string for a number, a fraction for an int, a number for   *)
(* the string) leaves the field zero and makes Decode return an error.     *)
(***************************************************************************)
FieldKind ==
    [k \in JsonKeys |->
        IF k = "timestamp" THEN "string"
        ELSE IF k \in {"dew_point", "temp", "humid", "abs_humid"} THEN "float64"
        ELSE "int"]

FieldOk(kind, v) ==
    \/ v.t = "absent"
    \/ kind = "string" /\ v.t = "str"
    \/ kind = "int" /\ v.t = "num" /\ v.d = 1
    \/ kind = "float64" /\ v.t = "num"

StringField(v) == IF v.t = "str" THEN v.s ELSE ""

IntField(v) == IF v.t = "num" /\ v.d = 1 THEN v.n ELSE 0

FloatField(v) == IF v.t = "num" THEN ParseFloat(v.n, v.d) ELSE PlusZero

ZeroAirData ==
    [Timestamp |-> "", Score |-> 0, DewPoint |-> PlusZero, Temp |-> PlusZero,
     Humid |-> PlusZero, AbsHumid |-> PlusZero, Co2 |-> 0, Co2Est |-> 0,
     Co2EstBaseline |-> 0, Voc |-> 0, VocBaseline |-> 0, VocH2Raw |-> 0,
     VocEthanolRaw |-> 0, Pm25 |-> 0, Pm10Est |-> 0]

JsonDecode(b) ==
    IF b.kind # "object"
    THEN [err |-> TRUE, data |-> ZeroAirData]
    ELSE [err |-> \E k \in JsonKeys : ~FieldOk(FieldKind[k], b.obj[k]),
          data |->
            [Timestamp |-> StringField(b.obj["timestamp"]),
             Score |-> IntField(b.obj["score"]),
             DewPoint |-> FloatField(b.obj["dew_point"]),
             Temp |-> FloatField(b.obj["temp"]),
             Humid |-> FloatField(b.obj["humid"]),
             AbsHumid |-> FloatField(b.obj["abs_humid"]),
             Co2 |-> IntField(b.obj["co2"]),
             Co2Est |-> IntField(b.obj["co2_est"]),
             Co2EstBaseline |-> IntField(b.obj["co2_est_baseline"]),
             Voc |-> IntField(b.obj["voc"]),
             VocBaseline |-> IntField(b.obj["voc_baseline"]),
             VocH2Raw |-> IntField(b.obj["voc_h2_raw"]),
             VocEthanolRaw |-> IntField(b.obj["voc_ethanol_raw"]),
             Pm25 |-> IntField(b.obj["pm25"]),
             Pm10Est |-> IntField(b.obj["pm10_est"])]]

(***************************************************************************)
(* The descriptors newCollector builds (the help texts are left out) and   *)
(* the metrics made from them.                                             *)
(***************************************************************************)
NewDesc(fqName) == [fqName |-> fqName, variableLabels |-> <<"sensor">>]

Errors == NewDesc("awair_collection_errors_total")

\* the descriptor fields of the collector newCollector returns
CollectorDescs ==
    [Errors |-> Errors,
     Score |-> NewDesc("awair_score"),
     DewPointC |-> NewDesc("awair_dew_point"),
     DewPointF |-> NewDesc("awair_dew_point_f"),
     TempC |-> NewDesc("awair_temp"),
     TempF |-> NewDesc("awair_temp_f"),
     Humid |-> NewDesc("awair_humid"),
     AbsHumid |-> NewDesc("awair_abs_humid"),
     Co2 |-> NewDesc("awair_co2"),
     Co2Est |-> NewDesc("awair_co2_est"),
     Co2EstBaseline |-> NewDesc("awair_co2_est_baseline"),
     Voc |-> NewDesc("awair_voc"),
     VocBaseline |-> NewDesc("awair_voc_baseline"),
     VocH2Raw |-> NewDesc("awair_voc_h2_raw"),
     VocEthanolRaw |-> NewDesc("awair_voc_ethanol_raw"),
     Pm25 |-> NewDesc("awair_pm25"),
     Pm10Est |-> NewDesc("awair_pm10_est")]

MustNewConstMetric(desc, valueType, value, labelValues) ==
    [desc |-> desc, valueType |-> valueType, value |-> value,
     labelValues |-> labelValues]

\* the descriptors Describe sends, in the order of lines 222-238
DescribeSends ==
    <<descs.Errors, descs.Score, descs.DewPointC, descs.DewPointF,
      descs.TempC, descs.TempF, descs.Humid, descs.AbsHumid, descs.Co2,
      descs.Co2Est, descs.Co2EstBaseline, descs.Voc, descs.VocBaseline,
      descs.VocH2Raw, descs.VocEthanolRaw, descs.Pm25, descs.Pm10Est>>

\* an error indicator made with the gauge type
ErrorMetric_Gauge(name) ==
    MustNewConstMetric(descs.Errors, "gauge", IntToFloat(1), <<name>>)

\* the error indicator of lines 270 and 295
ErrorMetric(name) ==
    MustNewConstMetric(descs.Errors, "counter", IntToFloat(1), <<name>>)

\* the i-th send, with the descriptor of line 311 repeated on line 312
GaugeSend_RepeatedDesc(a, i) ==
    CASE i = 1 -> <<descs.Score, IntToFloat(a.Score)>>
      [] i = 2 -> <<descs.DewPointC, a.DewPoint>>
      [] i = 3 -> <<descs.DewPointF, celsiusToFahrenheit(a.DewPoint)>>
      [] i = 4 -> <<descs.TempC, a.Temp>>
      [] i = 5 -> <<descs.TempF, celsiusToFahrenheit(a.Temp)>>
      [] i = 6 -> <<descs.Humid, a.Humid>>
      [] i = 7 -> <<descs.AbsHumid, a.AbsHumid>>
      [] i = 8 -> <<descs.Co2, IntToFloat(a.Co2)>>
      [] i = 9 -> <<descs.Co2Est, IntToFloat(a.Co2Est)>>
      [] i = 10 -> <<descs.Co2EstBaseline, IntToFloat(a.Co2EstBaseline)>>
      [] i = 11 -> <<descs.Voc, IntToFloat(a.Voc)>>
      [] i = 12 -> <<descs.VocBaseline, IntToFloat(a.VocBaseline)>>
      [] i = 13 -> <<descs.VocEthanolRaw, IntToFloat(a.VocEthanolRaw)>>
      [] i = 14 -> <<descs.VocEthanolRaw, IntToFloat(a.VocH2Raw)>>
      [] i = 15 -> <<descs.Pm25, IntToFloat(a.Pm25)>>
      [] i = 16 -> <<descs.Pm10Est, IntToFloat(a.Pm10Est)>>

\* the i-th of the gauges of lines 299-314, in the order they are sent
GaugeSend(a, i) ==
    CASE i = 1 -> <<descs.Score, IntToFloat(a.Score)>>
      [] i = 2 -> <<descs.DewPointC, a.DewPoint>>
      [] i = 3 -> <<descs.DewPointF, celsiusToFahrenheit(a.DewPoint)>>
      [] i = 4 -> <<descs.TempC, a.Temp>>
      [] i = 5 -> <<descs.TempF, celsiusToFahrenheit(a.Temp)>>
      [] i = 6 -> <<descs.Humid, a.Humid>>
      [] i = 7 -> <<descs.AbsHumid, a.AbsHumid>>
      [] i = 8 -> <<descs.Co2, IntToFloat(a.Co2)>>
      [] i = 9 -> <<descs.Co2Est, IntToFloat(a.Co2Est)>>
      [] i = 10 -> <<descs.Co2EstBaseline, IntToFloat(a.Co2EstBaseline)>>
      [] i = 11 -> <<descs.Voc, IntToFloat(a.Voc)>>
      [] i = 12 -> <<descs.VocBaseline, IntToFloat(a.VocBaseline)>>
      [] i = 13 -> <<descs.VocEthanolRaw, IntToFloat(a.VocEthanolRaw)>>
      [] i = 14 -> <<descs.VocH2Raw, IntToFloat(a.VocH2Raw)>>
      [] i = 15 -> <<descs.Pm25, IntToFloat(a.Pm25)>>
      [] i = 16 -> <<descs.Pm10Est, IntToFloat(a.Pm10Est)>>

\* a gauge labelled with the device's address instead of its name
GaugeMetric_AddressLabel(a, i, name) ==
    MustNewConstMetric(GaugeSend(a, i)[1], "gauge",
                       GaugeSend(a, i)[2], <<AddrOfName(name)>>)

GaugeMetric(a, i, name) ==
    MustNewConstMetric(GaugeSend(a, i)[1], "gauge",
                       GaugeSend(a, i)[2], <<name>>)

NumGauges == 16

\* url := "http://" + addr + "/air-data/latest"
Url(addr) == <<"http://", addr, "/air-data/latest">>

(***************************************************************************)
(* parseDevices.  A token is a sequence of characters; Go's arg[lo:hi] is  *)
(* Slice(arg, lo, hi) and strings.LastIndex counts from 0 and gives -1     *)
(* when the separator does not occur.                                      *)
(***************************************************************************)
Alphabet == {"a", "="}

\* "a=b=c"
TokenABC == <<"a", "=", "b", "=", "c">>

Tokens ==
    UNION {[1..n -> Alphabet] : n \in 0..MaxTokLen} \cup {TokenABC}

ArgLists == UNION {[1..n -> Tokens] : n \in 0..MaxArgs}

SetMax(S) == CHOOSE x \in S : \A y \in S : y <= x

\* a parser that splits at the first separator instead of the last
LastIndex_First(s, sep) ==
    LET I == {i \in 1..Len(s) : s[i] = sep}
    IN  IF I = {} THEN -1 ELSE (CHOOSE x \in I : \A y \in I : x <= y) - 1

\* strings.LastIndex(arg, "=")
LastIndex(s, sep) ==
    LET I == {i \in 1..Len(s) : s[i] = sep}
    IN  IF I = {} THEN -1 ELSE SetMax(I) - 1

\* s[lo:hi]
Slice(s, lo, hi) == SubSeq(s, lo + 1, hi)

\* a map write that keeps the entry a name already has
MapSet_KeepFirst(m, key, value) ==
    [k \in DOMAIN m \cup {key} |->
        IF k \in DOMAIN m THEN m[k] ELSE value]

\* devices[key] = value
MapSet(m, key, value) ==
    [k \in DOMAIN m \cup {key} |-> IF k = key THEN value ELSE m[k]]

\* make(map[string]string)
EmptyMap == [k \in {} |-> <<>>]

NotParsed == [called |-> FALSE, devices |-> EmptyMap, isNil |-> FALSE, err |-> <<>>]

\* a loop that passes over a token without separator instead of failing
RECURSIVE parseLoop_SkipMalformed(_, _, _)
parseLoop_SkipMalformed(argList, i, devices) ==
    IF i > Len(argList)
    THEN [called |-> TRUE, devices |-> devices, isNil |-> FALSE, err |-> <<>>]
    ELSE LET arg == argList[i]
             index == LastIndex(arg, "=")
         IN  IF index < 0
             THEN parseLoop_SkipMalformed(argList, i + 1, devices)
             ELSE parseLoop_SkipMalformed(argList, i + 1,
                            MapSet(devices, Slice(arg, 0, index),
                                   Slice(arg, index + 1, Len(arg))))

\* the loop of parseDevices from its i-th argument on
RECURSIVE parseLoop(_, _, _)
parseLoop(argList, i, devices) ==
    IF i > Len(argList)
    THEN [called |-> TRUE, devices |-> devices, isNil |-> FALSE, err |-> <<>>]
    ELSE LET arg == argList[i]
             index == LastIndex(arg, "=")
         IN  IF index < 0
             THEN [called |-> TRUE, devices |-> EmptyMap, isNil |-> TRUE,
                   err |-> <<"expected key=value, got %q", arg>>]
             ELSE parseLoop(argList, i + 1,
                            MapSet(devices, Slice(arg, 0, index),
                                   Slice(arg, index + 1, Len(arg))))

parseDevices(argList) == parseLoop(argList, 1, EmptyMap)

(***************************************************************************)
(* The collector.  Collect adds len(DeviceAddrs) to the WaitGroup, starts  *)
(* one goroutine per device and waits; each goroutine runs collectOne and  *)
(* then wg.Done().  A goroutine is cut into steps at the points where it   *)
(* can block: the GET, the read of the body inside Decode, and every send  *)
(* on the channel.                                                         *)
(***************************************************************************)
Devices == DOMAIN DeviceAddrs

\* a goroutine's locals before it runs, for every device of the registry
Fresh(reg, v) == [d \in DOMAIN reg |-> v]

\* newCollector(client, deviceAddrs)
newCollector(reg) ==
    /\ DeviceAddrs = reg
    /\ descs = CollectorDescs
    /\ collectPc = "idle"
    /\ wg = 0
    /\ ch = EmptyBag
    /\ taskPc = Fresh(reg, "none")
    /\ requests = Fresh(reg, <<>>)
    /\ getErr = Fresh(reg, "none")
    /\ status = Fresh(reg, 0)
    /\ body = Fresh(reg, 0)
    /\ bodyOpen = Fresh(reg, FALSE)
    /\ airData = Fresh(reg, ZeroAirData)
    /\ sendIdx = Fresh(reg, 0)
    /\ describePc = "idle"
    /\ described = <<>>
    /\ describedBefore = FALSE
    /\ failedBefore = FALSE

Init ==
    /\ args = <<>>
    /\ parsed = NotParsed
    /\ \E reg \in Registries : newCollector(reg)

\* a Collect that goes on with what the cycle before has sent
CollectStart_KeepChannel ==
    /\ collectPc \in {"idle", "returned"}
    /\ collectPc' = "running"
    /\ wg' = wg + Cardinality(Devices)
    /\ ch' = ch
    /\ taskPc' = Fresh(DeviceAddrs, "none")
    /\ requests' = Fresh(DeviceAddrs, <<>>)
    /\ getErr' = Fresh(DeviceAddrs, "none")
    /\ status' = Fresh(DeviceAddrs, 0)
    /\ body' = Fresh(DeviceAddrs, 0)
    /\ bodyOpen' = Fresh(DeviceAddrs, FALSE)
    /\ airData' = Fresh(DeviceAddrs, ZeroAirData)
    /\ sendIdx' = Fresh(DeviceAddrs, 0)
    /\ UNCHANGED <<DeviceAddrs, descs, parseVars, describeVars>>

\* Collect is called with a channel of its own: wg.Add(len(c.DeviceAddrs))
CollectStart ==
    /\ collectPc \in {"idle", "returned"}
    /\ collectPc' = "running"
    /\ wg' = wg + Cardinality(Devices)
    /\ ch' = EmptyBag
    /\ taskPc' = Fresh(DeviceAddrs, "none")
    /\ requests' = Fresh(DeviceAddrs, <<>>)
    /\ getErr' = Fresh(DeviceAddrs, "none")
    /\ status' = Fresh(DeviceAddrs, 0)
    /\ body' = Fresh(DeviceAddrs, 0)
    /\ bodyOpen' = Fresh(DeviceAddrs, FALSE)
    /\ airData' = Fresh(DeviceAddrs, ZeroAirData)
    /\ sendIdx' = Fresh(DeviceAddrs, 0)
    /\ UNCHANGED <<DeviceAddrs, descs, parseVars, describeVars>>

CollectCall == CollectStart /\ UNCHANGED failedBefore

\* the same call, with the history of the earlier cycles kept
CollectCallAgain ==
    /\ CollectStart
    /\ failedBefore' = (failedBefore \/ \E m \in BagToSet(ch) : m.desc = descs.Errors)

\* a Collect that scrapes one device after the other
Spawn_Sequential(name) ==
    /\ collectPc = "running"
    /\ taskPc[name] = "none"
    /\ \A d \in Devices : taskPc[d] \in {"none", "done"}
    /\ taskPc' = [taskPc EXCEPT ![name] = "start"]
    /\ UNCHANGED <<DeviceAddrs, descs, collectPc, wg, ch, requests, getErr, status,
                   body, bodyOpen, airData, sendIdx, otherVars>>

\* go func(name, addr string) {...}(name, addr), in the map's iteration order
Spawn(name) ==
    /\ collectPc = "running"
    /\ taskPc[name] = "none"
    /\ taskPc' = [taskPc EXCEPT ![name] = "start"]
    /\ UNCHANGED <<DeviceAddrs, descs, collectPc, wg, ch, requests, getErr, status,
                   body, bodyOpen, airData, sendIdx, otherVars>>

\* a Collect that returns once the goroutines are started, without waiting
CollectWait_NoBarrier ==
    /\ collectPc = "running"
    /\ \A d \in Devices : taskPc[d] # "none"
    /\ collectPc' = "returned"
    /\ UNCHANGED <<DeviceAddrs, descs, wg, ch, taskPc, requests, getErr, status,
                   body, bodyOpen, airData, sendIdx, otherVars>>

\* wg.Wait() returns, and so does Collect
CollectWait ==
    /\ collectPc = "running"
    /\ \A d \in Devices : taskPc[d] # "none"
    /\ wg = 0
    /\ collectPc' = "returned"
    /\ UNCHANGED <<DeviceAddrs, descs, wg, ch, taskPc, requests, getErr, status,
                   body, bodyOpen, airData, sendIdx, otherVars>>

\* a goroutine that ends without wg.Done()
Return_NoDone(name) ==
    /\ taskPc' = [taskPc EXCEPT ![name] = "done"]
    /\ bodyOpen' = [bodyOpen EXCEPT ![name] = FALSE]
    /\ wg' = wg

\* collectOne returns (the deferred resp.Body.Close() runs) and the
\* goroutine calls wg.Done()
Return(name) ==
    /\ taskPc' = [taskPc EXCEPT ![name] = "done"]
    /\ bodyOpen' = [bodyOpen EXCEPT ![name] = FALSE]
    /\ wg' = wg - 1

\* c.Client.Get(url) is issued
GetIssue(name) ==
    /\ taskPc[name] = "start"
    /\ requests' = [requests EXCEPT ![name] = Append(@, Url(DeviceAddrs[name]))]
    /\ taskPc' = [taskPc EXCEPT ![name] = "get"]
    /\ UNCHANGED <<DeviceAddrs, descs, collectPc, wg, ch, getErr, status, body,
                   bodyOpen, airData, sendIdx, otherVars>>

\* a collectOne that tries the GET again after a failure
GetFails_Retry(name, e) ==
    /\ taskPc[name] = "get"
    /\ getErr' = [getErr EXCEPT ![name] = e]
    /\ taskPc' = [taskPc EXCEPT ![name] = "start"]
    /\ UNCHANGED <<DeviceAddrs, descs, collectPc, wg, ch, requests, status, body,
                   bodyOpen, airData, sendIdx, otherVars>>

\* a collectOne that also counts a failed GET as a collection error
GetFails_Counted(name, e) ==
    /\ taskPc[name] = "get"
    /\ getErr' = [getErr EXCEPT ![name] = e]
    /\ ch' = ch (+) SetToBag({ErrorMetric(name)})
    /\ Return(name)
    /\ UNCHANGED <<DeviceAddrs, descs, collectPc, requests, status, body,
                   airData, sendIdx, otherVars>>

\* Get returns an error (connection refused, or the client's timer fired
\* before the response headers): log and return
GetFails(name, e) ==
    /\ taskPc[name] = "get"
    /\ getErr' = [getErr EXCEPT ![name] = e]
    /\ Return(name)
    /\ UNCHANGED <<DeviceAddrs, descs, collectPc, ch, requests, status, body,
                   airData, sendIdx, otherVars>>

\* a status check that lets 4xx answers through to the decoder
StatusIsError_ServerOnly(code) == code >= 500

\* resp.StatusCode != 200
StatusIsError(code) == code # 200

\* Get returns a response; the status check follows
GetResponds(name, code) ==
    /\ taskPc[name] = "get"
    /\ status' = [status EXCEPT ![name] = code]
    /\ bodyOpen' = [bodyOpen EXCEPT ![name] = TRUE]
    /\ taskPc' = [taskPc EXCEPT ![name] =
                    IF StatusIsError(code) THEN "sendErr" ELSE "decode"]
    /\ UNCHANGED <<DeviceAddrs, descs, collectPc, wg, ch, requests, getErr, body,
                   airData, sendIdx, otherVars>>

\* a failure that throws away what the other goroutines have sent
SendError_Abort(name) ==
    /\ taskPc[name] = "sendErr"
    /\ ch' = SetToBag({ErrorMetric(name)})
    /\ Return(name)
    /\ UNCHANGED <<DeviceAddrs, descs, collectPc, requests, getErr, status, body,
                   airData, sendIdx, otherVars>>

\* ch <- the error indicator, then return (lines 270-271 and 295-296)
SendError(name) ==
    /\ taskPc[name] = "sendErr"
    /\ ch' = ch (+) SetToBag({ErrorMetric(name)})
    /\ Return(name)
    /\ UNCHANGED <<DeviceAddrs, descs, collectPc, requests, getErr, status, body,
                   airData, sendIdx, otherVars>>

\* a collectOne that does not look at the error Decode returns
Decode_IgnoreError(name, b) ==
    /\ taskPc[name] = "decode"
    /\ body' = [body EXCEPT ![name] = BodyId(b)]
    /\ airData' = [airData EXCEPT ![name] = JsonDecode(b).data]
    /\ taskPc' = [taskPc EXCEPT ![name] = "send"]
    /\ UNCHANGED <<DeviceAddrs, descs, collectPc, wg, ch, requests, getErr, status,
                   bodyOpen, sendIdx, otherVars>>

\* json.NewDecoder(resp.Body).Decode(&airData) reads body b
Decode(name, b) ==
    /\ taskPc[name] = "decode"
    /\ body' = [body EXCEPT ![name] = BodyId(b)]
    /\ airData' = [airData EXCEPT ![name] = JsonDecode(b).data]
    /\ taskPc' = [taskPc EXCEPT ![name] =
                    IF JsonDecode(b).err THEN "sendErr" ELSE "send"]
    /\ UNCHANGED <<DeviceAddrs, descs, collectPc, wg, ch, requests, getErr, status,
                   bodyOpen, sendIdx, otherVars>>

\* a collectOne that leaves out the gauges whose value is zero
SendGauge_SkipZero(name) ==
    /\ taskPc[name] = "send"
    /\ ch' = IF GaugeSend(airData[name], sendIdx[name] + 1)[2] = PlusZero
             THEN ch
             ELSE ch (+) SetToBag({GaugeMetric(airData[name], sendIdx[name] + 1, name)})
    /\ sendIdx' = [sendIdx EXCEPT ![name] = @ + 1]
    /\ IF sendIdx[name] + 1 = NumGauges
       THEN Return(name)
       ELSE UNCHANGED <<taskPc, bodyOpen, wg>>
    /\ UNCHANGED <<DeviceAddrs, descs, collectPc, requests, getErr, status, body,
                   airData, otherVars>>

\* the next of the sends of lines 299-314; after the last one, return
SendGauge(name) ==
    /\ taskPc[name] = "send"
    /\ ch' = ch (+) SetToBag({GaugeMetric(airData[name], sendIdx[name] + 1, name)})
    /\ sendIdx' = [sendIdx EXCEPT ![name] = @ + 1]
    /\ IF sendIdx[name] + 1 = NumGauges
       THEN Return(name)
       ELSE UNCHANGED <<taskPc, bodyOpen, wg>>
    /\ UNCHANGED <<DeviceAddrs, descs, collectPc, requests, getErr, status, body,
                   airData, otherVars>>

\* Describe is called with a channel of its own
DescribeCall ==
    /\ describePc \in {"idle", "returned"}
    /\ describePc' = "running"
    /\ described' = <<>>
    /\ describedBefore' = (describePc = "returned")
    /\ UNCHANGED <<collectVars, parseVars, failedBefore>>

\* a Describe that sends the error descriptor in the place of the next one
\* while a Collect is running
DescribeSend_Stateful ==
    /\ describePc = "running"
    /\ described' = Append(described,
                           IF collectPc = "running"
                           THEN descs.Errors
                           ELSE DescribeSends[Len(described) + 1])
    /\ describePc' = IF Len(described) + 1 = Len(DescribeSends)
                     THEN "returned"
                     ELSE "running"
    /\ UNCHANGED <<collectVars, parseVars, describedBefore, failedBefore>>

\* the next of the sends of lines 222-238; after the last one, return
DescribeSend ==
    /\ describePc = "running"
    /\ described' = Append(described, DescribeSends[Len(described) + 1])
    /\ describePc' = IF Len(described) + 1 = Len(DescribeSends)
                     THEN "returned"
                     ELSE "running"
    /\ UNCHANGED <<collectVars, parseVars, describedBefore, failedBefore>>

Next ==
    \/ CollectCall
    \/ CollectWait
    \/ \E name \in Devices : Spawn(name)
    \/ \E name \in Devices : GetIssue(name)
    \/ \E name \in Devices, e \in GetErrors : GetFails(name, e)
    \/ \E name \in Devices, code \in StatusCodes : GetResponds(name, code)
    \/ \E name \in Devices : SendError(name)
    \/ \E name \in Devices, b \in Bodies : Decode(name, b)
    \/ \E name \in Devices : SendGauge(name)

Spec == Init /\ [][Next]_vars

\* the steps of a running Collect: its goroutines and its wg.Wait()
Progress ==
    \/ CollectWait
    \/ \E name \in Devices : Spawn(name)
    \/ \E name \in Devices : GetIssue(name)
    \/ \E name \in Devices, e \in GetErrors : GetFails(name, e)
    \/ \E name \in Devices, code \in StatusCodes : GetResponds(name, code)
    \/ \E name \in Devices : SendError(name)
    \/ \E name \in Devices, b \in Bodies : Decode(name, b)
    \/ \E name \in Devices : SendGauge(name)

\* the collector with the history of its cycles
NextCycles == Progress \/ CollectCallAgain

SpecCycles == Init /\ [][NextCycles]_vars

\* Describe called at any moment, also while a Collect runs; the devices
\* refuse, answer 200 or 500, and send a complete reading or no JSON
NextDescribe ==
    \/ DescribeCall
    \/ DescribeSend
    \/ CollectCall
    \/ CollectWait
    \/ \E name \in Devices : Spawn(name)
    \/ \E name \in Devices : GetIssue(name)
    \/ \E name \in Devices : GetFails(name, "refused")
    \/ \E name \in Devices, code \in {200, 500} : GetResponds(name, code)
    \/ \E name \in Devices : SendError(name)
    \/ \E name \in Devices, b \in {BodyFull, BodySyntaxError} : Decode(name, b)
    \/ \E name \in Devices : SendGauge(name)

\* the collector of at most two devices
InitDescribe ==
    /\ args = <<>>
    /\ parsed = NotParsed
    /\ \E reg \in Registries :
        /\ Cardinality(DOMAIN reg) <= 2
        /\ newCollector(reg)

SpecDescribe == InitDescribe /\ [][NextDescribe]_vars

\* the collector of one device that answers with any of the one-decimal
\* readings
InitConvert ==
    /\ args = <<>>
    /\ parsed = NotParsed
    /\ newCollector([n \in {NamePool[1]} |-> AddrOfName(n)])

NextConvert ==
    \/ CollectCall
    \/ CollectWait
    \/ \E name \in Devices : Spawn(name)
    \/ \E name \in Devices : GetIssue(name)
    \/ \E name \in Devices, e \in GetErrors : GetFails(name, e)
    \/ \E name \in Devices, code \in StatusCodes : GetResponds(name, code)
    \/ \E name \in Devices : SendError(name)
    \/ \E name \in Devices, b \in ReadingBodies : Decode(name, b)
    \/ \E name \in Devices : SendGauge(name)

SpecConvert == InitConvert /\ [][NextConvert]_vars

\* the steps of a running Collect whose devices end in one outcome of each
\* kind: unreachable (refused or timed out), answering 500, answering 200
\* with a complete reading, with no JSON or with a body cut by the timeout
ProgressLive ==
    \/ CollectWait
    \/ \E name \in Devices : Spawn(name)
    \/ \E name \in Devices : GetIssue(name)
    \/ \E name \in Devices, e \in GetErrors : GetFails(name, e)
    \/ \E name \in Devices, code \in {200, 500} : GetResponds(name, code)
    \/ \E name \in Devices : SendError(name)
    \/ \E name \in Devices, b \in {BodyFull, BodySyntaxError, BodyTimeout} :
            Decode(name, b)
    \/ \E name \in Devices : SendGauge(name)

NextLive == CollectCall \/ ProgressLive

\* the collector when every request ends (at the latest by the client's
\* timeout), the receiver of the channel keeps receiving and the scheduler
\* runs every goroutine that can run
SpecLive == Init /\ [][NextLive]_vars /\ WF_vars(ProgressLive)

(***************************************************************************)
(* parseDevices on its own: any argument list, then the call.              *)
(***************************************************************************)
InitParse ==
    /\ args \in ArgLists
    /\ parsed = NotParsed
    /\ newCollector(EmptyMap)

ParseCall ==
    /\ ~parsed.called
    /\ parsed' = parseDevices(args)
    /\ UNCHANGED <<args, collectVars, describeVars, failedBefore>>

NextParse == ParseCall

SpecParse == InitParse /\ [][NextParse]_vars

(***************************************************************************)
(* What the properties below speak about.                                  *)
(***************************************************************************)
\* the part of a bag whose elements satisfy a test
BagPart(B, Test(_)) == [m \in {x \in BagToSet(B) : Test(x)} |-> B[m]]

\* rationals <<n, d>> in lowest terms, d > 0: the numbers of the
\* specification
RECURSIVE Gcd(_, _)
Gcd(a, b) == IF b = 0 THEN a ELSE Gcd(b, a % b)

Rat(n, d) ==
    LET g == Gcd(Abs(n), Abs(d))
        s == IF d < 0 THEN -1 ELSE 1
    IN  <<(s * n) \div g, (s * d) \div g>>

\* the float64 whose value is the odd or zero n times 2^e
RECURSIVE OddTimesPower(_, _)
OddTimesPower(n, e) ==
    IF n = 0
    THEN [inf |-> FALSE, sign |-> 1, man |-> <<>>, exp |-> 0]
    ELSE IF n % 2 = 0
    THEN OddTimesPower(n \div 2, e + 1)
    ELSE [inf |-> FALSE, sign |-> IF n < 0 THEN -1 ELSE 1,
          man |-> NatBits(Abs(n)), exp |-> e]

\* the float64 whose value is the rational q; there is one only for a q
\* with a power of two as denominator (and a numerator below 2^53)
ExactFloat(q) ==
    LET r == Rat(q[1], q[2])
        k == CHOOSE i \in 0..30 : r[2] = 2^i
    IN  OddTimesPower(r[1], -k)

\* exact arithmetic on the numbers sign * man * 2^exp, man any natural
\* number in bits
Dy(sign, man, exp) == [sign |-> sign, man |-> man, exp |-> exp]

DyInt(i) == Dy(IF i < 0 THEN -1 ELSE 1, NatBits(Abs(i)), 0)

DyMul(x, k) ==
    IF k = 0
    THEN DyInt(0)
    ELSE Dy(IF k < 0 THEN -x.sign ELSE x.sign, MulBits(x.man, Abs(k), 0), x.exp)

DyAdd(x, y) ==
    LET e == Min(x.exp, y.exp)
        xm == ShiftLeft(x.man, x.exp - e)
        ym == ShiftLeft(y.man, y.exp - e)
    IN  IF x.sign = y.sign
        THEN Dy(x.sign, AddBits(xm, ym, 0), e)
        ELSE IF LessBits(xm, ym)
        THEN Dy(y.sign, SubBits(ym, xm), e)
        ELSE Dy(x.sign, SubBits(xm, ym), e)

DyAbs(x) == Dy(1, x.man, x.exp)

\* x * 2^(-n)
DyHalved(x, n) == Dy(x.sign, x.man, x.exp - n)

\* x <= y for x and y not negative
DyLeq(x, y) ==
    LET e == Min(x.exp, y.exp)
    IN  ~LessBits(ShiftLeft(y.man, y.exp - e), ShiftLeft(x.man, x.exp - e))

DyIsZero(x) == x.man = <<>>

\* what has been sent for a device, by its label
ItemsOf(name) ==
    LET Mine(m) == m.labelValues = <<name>>
    IN  BagPart(ch, Mine)

GaugesOf(name) ==
    LET Mine(m) == m.labelValues = <<name>> /\ m.valueType = "gauge"
    IN  BagPart(ch, Mine)

ErrorsOf(name) ==
    LET Mine(m) ==
            /\ m.labelValues = <<name>>
            /\ m.desc.fqName = "awair_collection_errors_total"
    IN  BagPart(ch, Mine)

\* the number of metrics sent for a device under a given metric name
CountOf(name, fqName) ==
    LET Mine(m) == m.labelValues = <<name>> /\ m.desc.fqName = fqName
    IN  BagCardinality(BagPart(ch, Mine))

\* the error indicator as the specification describes it
ExpectedError(name) ==
    [desc |-> [fqName |-> "awair_collection_errors_total",
               variableLabels |-> <<"sensor">>],
     valueType |-> "counter", value |-> ExactFloat(<<1, 1>>),
     labelValues |-> <<name>>]

\* the gauge of a name with the rational q as its value
ExpectedGauge(fqName, q, name) ==
    [desc |-> [fqName |-> fqName, variableLabels |-> <<"sensor">>],
     valueType |-> "gauge", value |-> ExactFloat(q), labelValues |-> <<name>>]

\* the metric of each numeric field of the device's JSON
MetricOfKey ==
    [score |-> "awair_score", dew_point |-> "awair_dew_point",
     temp |-> "awair_temp", humid |-> "awair_humid",
     abs_humid |-> "awair_abs_humid", co2 |-> "awair_co2",
     co2_est |-> "awair_co2_est",
     co2_est_baseline |-> "awair_co2_est_baseline", voc |-> "awair_voc",
     voc_baseline |-> "awair_voc_baseline",
     voc_h2_raw |-> "awair_voc_h2_raw",
     voc_ethanol_raw |-> "awair_voc_ethanol_raw", pm25 |-> "awair_pm25",
     pm10_est |-> "awair_pm10_est"]

NumericKeys == DOMAIN MetricOfKey

FahrenheitNames == {"awair_temp_f", "awair_dew_point_f"}

AllGaugeNames == {MetricOfKey[k] : k \in NumericKeys} \cup FahrenheitNames

\* the number a JSON object gives for a key, 0 when the key is missing
NumberAt(b, k) ==
    IF b.obj[k].t = "num" THEN <<b.obj[k].n, b.obj[k].d>> ELSE <<0, 1>>

RatMul(x, y) == Rat(x[1] * y[1], x[2] * y[2])

RatAdd(x, y) == Rat(x[1] * y[2] + y[1] * x[2], x[2] * y[2])

\* F = C * 9/5 + 32
Fahrenheit(c) == RatAdd(RatMul(c, <<9, 5>>), <<32, 1>>)

\* the reading a device that answered body b must yield
ExpectedReading(name, b) ==
    SetToBag({ExpectedGauge(MetricOfKey[k], NumberAt(b, k), name) : k \in NumericKeys}
             \cup {ExpectedGauge("awair_temp_f", Fahrenheit(NumberAt(b, "temp")), name),
                   ExpectedGauge("awair_dew_point_f",
                                 Fahrenheit(NumberAt(b, "dew_point")), name)})

\* the bodies of the model that are well-formed readings
GoodBodies == {BodyFull, BodyZero}

\* the bodies of the model that are not JSON for the airData struct
UndecodableBodies == {BodySyntaxError, BodyScoreString, BodyCo2Fraction}

Healthy(name) == status[name] = 200 /\ BodyOf(body[name]) \in GoodBodies

Failing(name) ==
    \/ getErr[name] # "none"
    \/ status[name] \notin {0, 200}
    \/ BodyOf(body[name]) \in UndecodableBodies

Finished(name) == taskPc[name] = "done"

(***************************************************************************)
(* The properties.                                                         *)
(***************************************************************************)

\* C1: Collect returns only when every device's goroutine has finished,
\* whatever its outcome, and once Collect has returned nothing more is sent
\* on its channel.
C1_JoinBarrier ==
    [][/\ collectPc' = "returned" => \A d \in Devices : taskPc'[d] = "done"
       /\ collectPc = "returned" /\ collectPc' = "returned" => ch' = ch]_vars

\* Collect has returned over two devices, one whose request timed out and
\* one that sent all its gauges
C1_Witness ==
    /\ collectPc = "returned"
    /\ \E d1, d2 \in Devices :
        /\ d1 # d2
        /\ getErr[d1] = "timeout"
        /\ sendIdx[d2] = NumGauges

\* C2: in one cycle no device is requested twice, a goroutine that has
\* issued its GET has requested exactly its own device's URL, and when
\* Collect returns every registered device has been requested exactly once.
C2_OneAttemptPerDevice ==
    /\ DOMAIN requests = Devices
    /\ \A d \in Devices :
        /\ Len(requests[d]) <= 1
        /\ \A i \in 1..Len(requests[d]) :
            requests[d][i] = <<"http://", DeviceAddrs[d], "/air-data/latest">>
        /\ taskPc[d] \notin {"none", "start"} => Len(requests[d]) = 1
        /\ collectPc = "returned" => Len(requests[d]) = 1

\* a finished cycle over two devices whose first requests both failed, in
\* different ways
C2_Witness ==
    /\ collectPc = "returned"
    /\ \E d1, d2 \in Devices :
        /\ getErr[d1] = "refused"
        /\ status[d2] = 500
        /\ Len(requests[d1]) = 1
        /\ Len(requests[d2]) = 1

\* C3: when Collect has returned, what was sent for a healthy device is
\* exactly the reading its own answer determines, whatever happened to the
\* other devices and in whatever order the goroutines ran.
C3_Isolation ==
    collectPc = "returned" =>
        \A h \in Devices :
            Healthy(h) => ItemsOf(h) = ExpectedReading(h, BodyOf(body[h]))

\* a finished cycle with a healthy device that sent a complete reading and
\* another device that failed
C3_Witness ==
    /\ collectPc = "returned"
    /\ \E h, f \in Devices :
        /\ h # f
        /\ Healthy(h)
        /\ BodyOf(body[h]) = BodyFull
        /\ Failing(f)
        /\ status[f] = 404

\* C4: a device that answered with a status other than 200 has its body
\* left undecoded, never has a gauge sent, and when its attempt has
\* finished exactly one error indicator of value 1 with its name was sent.
C4_Non200 ==
    \A d \in Devices :
        status[d] \notin {0, 200} =>
            /\ BodyOf(body[d]) = NoBody
            /\ GaugesOf(d) = EmptyBag
            /\ BagCardinality(ItemsOf(d)) <= 1
            /\ Finished(d) => ItemsOf(d) = SetToBag({ExpectedError(d)})

\* a device answered 500 and its attempt has finished
C4_Witness ==
    \E d \in Devices :
        /\ status[d] = 500
        /\ Finished(d)
        /\ BagCardinality(ErrorsOf(d)) = 1

\* C5: a device that answered 200 with a body that does not decode never
\* has a gauge sent, and when its attempt has finished exactly one error
\* indicator of value 1 with its name was sent.
C5_DecodeFailure ==
    \A d \in Devices :
        status[d] = 200 /\ BodyOf(body[d]) \in UndecodableBodies =>
            /\ GaugesOf(d) = EmptyBag
            /\ BagCardinality(ItemsOf(d)) <= 1
            /\ Finished(d) => ItemsOf(d) = SetToBag({ExpectedError(d)})

\* a device answered 200 with a fraction in an int field and its attempt
\* has finished
C5_Witness ==
    \E d \in Devices :
        /\ status[d] = 200
        /\ BodyOf(body[d]) = BodyCo2Fraction
        /\ Finished(d)
        /\ BagCardinality(ErrorsOf(d)) = 1

\* C6: for a device whose GET failed nothing at all is sent, neither a
\* gauge nor an error indicator.
C6_TransportFailureSilent ==
    \A d \in Devices :
        getErr[d] # "none" => ItemsOf(d) = EmptyBag /\ Finished(d)

\* a cycle has returned in which a device refused the connection while
\* another device sent something
C6_Witness ==
    /\ collectPc = "returned"
    /\ \E d, o \in Devices :
        /\ getErr[d] = "refused"
        /\ ItemsOf(o) # EmptyBag

\* C7: a device whose request ended in a timeout of the client's timer,
\* before the response or while the body was read, has nothing sent.
C7_TimeoutSilent ==
    \A d \in Devices :
        getErr[d] = "timeout" \/ BodyOf(body[d]) = BodyTimeout =>
            ItemsOf(d) = EmptyBag

\* C8: what was sent for a device is always only gauges and error
\* indicators, and is either no gauge and at most one error indicator, or
\* no error indicator and every gauge once, or no error indicator and a part
\* of the gauges while the attempt is still sending; a decodable body with
\* missing fields ends with the complete set.
C8_AllOrNothing ==
    \A d \in Devices :
        LET g == BagCardinality(GaugesOf(d))
            e == BagCardinality(ErrorsOf(d))
            complete ==
                /\ {m.desc.fqName : m \in BagToSet(GaugesOf(d))} = AllGaugeNames
                /\ g = Cardinality(AllGaugeNames)
        IN  /\ BagCardinality(ItemsOf(d)) = g + e
            /\ \/ g = 0 /\ e <= 1
               \/ e = 0 /\ complete
               \/ e = 0 /\ taskPc[d] = "send"
            /\ Finished(d) /\ Healthy(d) => e = 0 /\ complete

\* a device answered {"temp": 0, "dew_point": 0} and every gauge was sent
C8_Witness ==
    \E d \in Devices :
        /\ Finished(d)
        /\ BodyOf(body[d]) = BodyZero
        /\ BagCardinality(GaugesOf(d)) = Cardinality(AllGaugeNames)

\* the number of gauges sent for a device that are not (are) derived
\* Fahrenheit gauges
NumericGaugeCount(name) ==
    LET Mine(m) == m.desc.fqName \notin FahrenheitNames
    IN  BagCardinality(BagPart(GaugesOf(name), Mine))

DerivedGaugeCount(name) ==
    LET Mine(m) == m.desc.fqName \in FahrenheitNames
    IN  BagCardinality(BagPart(GaugesOf(name), Mine))

\* C9 as stated: a successful attempt sends fifteen numeric gauges and the
\* two Fahrenheit gauges, and no error indicator.
C9_FifteenPlusTwo ==
    \A d \in Devices :
        Finished(d) /\ Healthy(d) =>
            /\ NumericGaugeCount(d) = 15
            /\ DerivedGaugeCount(d) = 2
            /\ ErrorsOf(d) = EmptyBag

\* C9 amended: a successful attempt sends fourteen numeric gauges, one for
\* each numeric field, and the two Fahrenheit gauges, each metric name
\* exactly once, and no error indicator.
C9_FourteenPlusTwo ==
    \A d \in Devices :
        Finished(d) /\ Healthy(d) =>
            /\ NumericGaugeCount(d) = 14
            /\ DerivedGaugeCount(d) = 2
            /\ \A n \in AllGaugeNames : CountOf(d, n) = 1
            /\ BagCardinality(ItemsOf(d)) = 16
            /\ ErrorsOf(d) = EmptyBag

\* a device answered the complete reading and its attempt has finished
C9_Witness ==
    \E d \in Devices :
        /\ Finished(d)
        /\ status[d] = 200
        /\ BodyOf(body[d]) = BodyFull
        /\ BagCardinality(ItemsOf(d)) = 16

\* the split of a token the specification asks for: the name before and
\* the address after the separator that no separator follows
HasSeparator(tok) == \E i \in 1..Len(tok) : tok[i] = "="

SplitAt(tok) ==
    CHOOSE k \in 1..Len(tok) :
        tok[k] = "=" /\ \A j \in (k + 1)..Len(tok) : tok[j] # "="

NameOf(tok) == SubSeq(tok, 1, SplitAt(tok) - 1)

AddressOf(tok) == SubSeq(tok, SplitAt(tok) + 1, Len(tok))

ValidUniqueArgs ==
    /\ \A i \in 1..Len(args) : HasSeparator(args[i])
    /\ \A i, j \in 1..Len(args) : i # j => NameOf(args[i]) # NameOf(args[j])

\* C10: for a list of tokens that all hold '=' and have pairwise distinct
\* names, parseDevices returns no error and a map with one entry per token,
\* the name before the token's last '=' mapped to the address after it;
\* "a=b=c" alone gives the single entry "a=b" -> "c".
C10_ParseValid ==
    parsed.called /\ ValidUniqueArgs =>
        /\ parsed.err = <<>>
        /\ ~parsed.isNil
        /\ Cardinality(DOMAIN parsed.devices) = Len(args)
        /\ \A i \in 1..Len(args) :
            /\ NameOf(args[i]) \in DOMAIN parsed.devices
            /\ parsed.devices[NameOf(args[i])] = AddressOf(args[i])
        /\ args = <<TokenABC>> =>
            /\ DOMAIN parsed.devices = {<<"a", "=", "b">>}
            /\ parsed.devices[<<"a", "=", "b">>] = <<"c">>

\* parseDevices was called on "a=b=c" followed by a token of another name
C10_Witness ==
    /\ parsed.called
    /\ Len(args) = 2
    /\ args[1] = TokenABC
    /\ ValidUniqueArgs
    /\ Cardinality(DOMAIN parsed.devices) = 2

\* the name and the address a token was built from when it was put
\* together as name, '=', address with the '=' at position k
IntendedName(tok, k) == SubSeq(tok, 1, k - 1)

IntendedAddress(tok, k) == SubSeq(tok, k + 1, Len(tok))

Contains(s, c) == \E i \in 1..Len(s) : s[i] = c

\* C11 as stated: a token built as name, '=', address whose address holds
\* '=' is parsed to the intended name (shown on lists of one token, where
\* the map's only key is the parsed name).
C11_NameNeverAbsorbs ==
    parsed.called /\ Len(args) = 1 =>
        \A k \in 1..Len(args[1]) :
            args[1][k] = "=" /\ Contains(IntendedAddress(args[1], k), "=") =>
                DOMAIN parsed.devices = {IntendedName(args[1], k)}

\* C11 amended: a token built as name, '=', address is parsed to the
\* intended name and address when the address holds no '=', also when the
\* name holds '='; when the address holds '=', the parsed name is longer
\* than the intended name, it takes in the address up to its last '='; no
\* parsed address ever holds '='.
C11_SplitAtLastSeparator ==
    /\ \A n \in DOMAIN parsed.devices : ~Contains(parsed.devices[n], "=")
    /\ parsed.called /\ Len(args) = 1 =>
        \A k \in 1..Len(args[1]) :
            args[1][k] = "=" =>
                IF Contains(IntendedAddress(args[1], k), "=")
                THEN \E n \in DOMAIN parsed.devices :
                        /\ Len(n) > Len(IntendedName(args[1], k))
                        /\ SubSeq(n, 1, k - 1) = IntendedName(args[1], k)
                        /\ n[k] = "="
                ELSE /\ DOMAIN parsed.devices = {IntendedName(args[1], k)}
                     /\ parsed.devices[IntendedName(args[1], k)]
                            = IntendedAddress(args[1], k)

\* parseDevices was called on the one token "a=b=c": read as name "a=b"
\* and address "c" it is parsed as intended, read as name "a" and address
\* "b=c" the name has taken in "=b"
C11_Witness ==
    /\ parsed.called
    /\ args = <<TokenABC>>
    /\ DOMAIN parsed.devices = {<<"a", "=", "b">>}
    /\ parsed.devices[<<"a", "=", "b">>] = <<"c">>

\* the first token of the list that holds no '='
FirstMalformed ==
    CHOOSE i \in 1..Len(args) :
        /\ ~HasSeparator(args[i])
        /\ \A j \in 1..(i - 1) : HasSeparator(args[j])

\* C12: when a token of the list holds no '=', parseDevices returns an
\* error that names the first such token and no map, whatever well-formed
\* tokens came before it; when every token holds '=', it returns no error.
C12_MalformedToken ==
    parsed.called =>
        IF \E i \in 1..Len(args) : ~HasSeparator(args[i])
        THEN /\ parsed.isNil
             /\ DOMAIN parsed.devices = {}
             /\ Len(parsed.err) = 2
             /\ parsed.err[2] = args[FirstMalformed]
        ELSE parsed.err = <<>> /\ ~parsed.isNil

\* parseDevices was called on a well-formed token followed by a token
\* without '='
C12_Witness ==
    /\ parsed.called
    /\ Len(args) = 2
    /\ HasSeparator(args[1])
    /\ ~HasSeparator(args[2])
    /\ parsed.isNil
    /\ parsed.err # <<>>

\* the last token of the list with a given name
LastWithName(n) ==
    CHOOSE i \in 1..Len(args) :
        /\ NameOf(args[i]) = n
        /\ \A j \in (i + 1)..Len(args) : NameOf(args[j]) # n

\* C13: for a list of tokens that all hold '=', names repeated or not,
\* parseDevices returns no error and a map with one entry for each distinct
\* name, holding the address of the last token with that name.
C13_LastWriteWins ==
    parsed.called /\ (\A i \in 1..Len(args) : HasSeparator(args[i])) =>
        /\ parsed.err = <<>>
        /\ DOMAIN parsed.devices = {NameOf(args[i]) : i \in 1..Len(args)}
        /\ \A n \in DOMAIN parsed.devices :
            parsed.devices[n] = AddressOf(args[LastWithName(n)])

\* parseDevices was called on two tokens with the same name and different
\* addresses
C13_Witness ==
    /\ parsed.called
    /\ Len(args) = 2
    /\ HasSeparator(args[1])
    /\ HasSeparator(args[2])
    /\ NameOf(args[1]) = NameOf(args[2])
    /\ AddressOf(args[1]) # AddressOf(args[2])
    /\ Cardinality(DOMAIN parsed.devices) = 1

\* C14: every metric on the channel has exactly one label value, for the
\* one label "sensor" of its descriptor; the value is the name of a
\* registered device and no device's address; and the metrics labelled with
\* a device's name are as many as that device's own goroutine has sent, so
\* none of them comes from another device's attempt.
C14_LabelIsName ==
    /\ \A m \in BagToSet(ch) :
        /\ Len(m.labelValues) = 1
        /\ m.desc.variableLabels = <<"sensor">>
        /\ m.labelValues[1] \in Devices
        /\ \A d \in Devices : m.labelValues[1] # DeviceAddrs[d]
    /\ \A d \in Devices :
        BagCardinality(ItemsOf(d)) =
            sendIdx[d]
            + (IF Finished(d) /\ getErr[d] = "none" /\ sendIdx[d] = 0
               THEN 1 ELSE 0)

\* a finished cycle in which one device sent its error indicator and
\* another its complete reading
C14_Witness ==
    /\ collectPc = "returned"
    /\ \E d1, d2 \in Devices :
        /\ BodyOf(body[d1]) = BodySyntaxError
        /\ ItemsOf(d1) = SetToBag({ExpectedError(d1)})
        /\ BodyOf(body[d2]) = BodyFull
        /\ ItemsOf(d2) = ExpectedReading(d2, BodyFull)

\* the catalog the specification lists: one descriptor for each gauge and
\* one for the error indicator, each with the one label "sensor"
ExpectedCatalog ==
    {[fqName |-> n, variableLabels |-> <<"sensor">>] :
        n \in AllGaugeNames \cup {"awair_collection_errors_total"}}

\* C15: every call of Describe, the first and each later one, whenever its
\* sends come between the steps of a Collect, returns with the seventeen
\* descriptors of the catalog sent, each once; what a call has returned
\* stays as it is until the next call; and no step of Describe changes
\* anything of the collection: no request is issued and nothing is sent on
\* the metrics channel.
C15_DescribeIdempotent ==
    [][/\ describePc' = "returned" =>
            /\ {described'[i] : i \in 1..Len(described')} = ExpectedCatalog
            /\ Len(described') = 17
       /\ describePc = "returned" /\ describePc' = "returned" =>
            described' = described
       /\ describePc' # describePc \/ described' # described =>
            /\ requests' = requests
            /\ ch' = ch
            /\ taskPc' = taskPc
            /\ DeviceAddrs' = DeviceAddrs]_vars

\* a second call of Describe has returned while a Collect is under way,
\* with one request outstanding and metrics already sent
C15_Witness ==
    /\ describedBefore
    /\ describePc = "returned"
    /\ collectPc = "running"
    /\ ch # EmptyBag
    /\ \E d \in Devices : taskPc[d] = "get"

\* C16: no step of a Collect cycle, the first or a later one, changes the
\* device registry or a descriptor the collector holds, and these
\* descriptors are the catalog; and in every cycle, whatever the cycles
\* before it did, a goroutine that has not yet got its answer has nothing
\* on the channel (nothing is carried over from an earlier cycle), and a
\* device has at most one error indicator on the channel, of value
\* exactly 1.
C16_StatelessCycles ==
    /\ [][/\ DeviceAddrs' = DeviceAddrs
          /\ descs' = descs]_vars
    /\ [](/\ {descs[f] : f \in DOMAIN descs} = ExpectedCatalog
          /\ \A d \in Devices :
                /\ taskPc[d] \in {"none", "start", "get"} => ItemsOf(d) = EmptyBag
                /\ BagCardinality(ErrorsOf(d)) <= 1
                /\ \A m \in BagToSet(ErrorsOf(d)) :
                        m.value = ExactFloat(<<1, 1>>) /\ ch[m] = 1)

\* the only device failed in an earlier cycle and has failed again in the
\* cycle that has just returned
C16_Witness ==
    /\ failedBefore
    /\ collectPc = "returned"
    /\ Cardinality(Devices) = 1
    /\ \A d \in Devices : ItemsOf(d) = SetToBag({ExpectedError(d)})

\* the value of the one metric of a name sent for a device
ValueOf(name, fqName) ==
    (CHOOSE m \in BagToSet(ch) :
        m.labelValues = <<name>> /\ m.desc.fqName = fqName).value

\* the float64 c is the rational q or, where no float64 is q, within
\* 2^-53 * |q| of it
NearestTo(c, q) ==
    /\ ~c.inf
    /\ DyLeq(DyAbs(DyAdd(DyMul(c, q[2]), DyInt(-q[1]))),
             DyHalved(DyInt(Abs(q[1])), 53))

\* f = c*9/5 + 32, as 5*f = 9*c + 160
ExactlyFahrenheit(f, c) ==
    /\ ~f.inf
    /\ DyIsZero(DyAdd(DyAdd(DyMul(f, 5), DyMul(c, -9)), DyInt(-160)))

\* |f - (c*9/5 + 32)| <= 2^-51 * (|c*9/5| + 32), as
\* |5*f - 9*c - 160| <= 2^-51 * (9*|c| + 160)
NearlyFahrenheit(f, c) ==
    /\ ~f.inf
    /\ DyLeq(DyAbs(DyAdd(DyAdd(DyMul(f, 5), DyMul(c, -9)), DyInt(-160))),
             DyHalved(DyAdd(DyMul(DyAbs(c), 9), DyInt(160)), 51))

\* the device answered 200 with one of the one-decimal readings and its
\* attempt has finished
ReadingDone(d) ==
    /\ Finished(d)
    /\ status[d] = 200
    /\ BodyOf(body[d]) \in ReadingBodies

\* C17 as the specification states it: for a device that was scraped with
\* success, awair_temp_f and awair_dew_point_f are exactly C*9/5+32 of the
\* Celsius gauges awair_temp and awair_dew_point.
C17_Fahrenheit ==
    \A d \in Devices :
        ReadingDone(d) =>
            /\ ExactlyFahrenheit(ValueOf(d, "awair_temp_f"),
                                 ValueOf(d, "awair_temp"))
            /\ ExactlyFahrenheit(ValueOf(d, "awair_dew_point_f"),
                                 ValueOf(d, "awair_dew_point"))

\* C17: for a device that was scraped with success, awair_temp and
\* awair_dew_point carry the float64 nearest to the Celsius numbers of the
\* body, awair_temp_f and awair_dew_point_f are within 2^-51 * (|C*9/5| +
\* 32) of C*9/5+32 of these gauges, and no other value is sent under these
\* names; temp 0 gives awair_temp 0 and awair_temp_f 32 exactly, temp 100
\* gives awair_temp_f 212 exactly.
C17_FahrenheitRounded ==
    \A d \in Devices :
        ReadingDone(d) =>
            LET t == NumberAt(BodyOf(body[d]), "temp")
                dp == NumberAt(BodyOf(body[d]), "dew_point")
            IN  /\ \A n \in {"awair_temp", "awair_temp_f", "awair_dew_point",
                              "awair_dew_point_f"} : CountOf(d, n) = 1
                /\ NearestTo(ValueOf(d, "awair_temp"), t)
                /\ NearestTo(ValueOf(d, "awair_dew_point"), dp)
                /\ NearlyFahrenheit(ValueOf(d, "awair_temp_f"),
                                    ValueOf(d, "awair_temp"))
                /\ NearlyFahrenheit(ValueOf(d, "awair_dew_point_f"),
                                    ValueOf(d, "awair_dew_point"))
                /\ t[1] = 0 =>
                    /\ ValueOf(d, "awair_temp") = ExactFloat(<<0, 1>>)
                    /\ ValueOf(d, "awair_temp_f") = ExactFloat(<<32, 1>>)
                /\ Rat(t[1], t[2]) = <<100, 1>> =>
                    ValueOf(d, "awair_temp_f") = ExactFloat(<<212, 1>>)

\* a device answered temp -39.5, a number float64 holds, and dew point
\* -45.0; its attempt has finished with an awair_temp_f that is not
\* -39.1 (no float64 is) and not the float64 nearest to it, and with an
\* awair_dew_point_f of exactly -49
C17_Witness ==
    \E d \in Devices :
        /\ ReadingDone(d)
        /\ BodyOf(body[d]) = ReadingBody(-395)
        /\ ValueOf(d, "awair_temp") = ExactFloat(<<-79, 2>>)
        /\ ~ExactlyFahrenheit(ValueOf(d, "awair_temp_f"), ValueOf(d, "awair_temp"))
        /\ ~NearestTo(ValueOf(d, "awair_temp_f"), <<-391, 10>>)
        /\ ValueOf(d, "awair_dew_point_f") = ExactFloat(<<-49, 1>>)

\* C18: whatever the other devices' goroutines are doing, a goroutine that
\* is not yet started can be started, and a started one can take its next
\* step: issue its request, take its answer, decode, send.
C18_NoBlocking ==
    \A d \in Devices :
        /\ collectPc = "running" /\ taskPc[d] = "none" => ENABLED Spawn(d)
        /\ taskPc[d] = "start" => ENABLED GetIssue(d)
        /\ taskPc[d] = "get" =>
            /\ \A code \in StatusCodes : ENABLED GetResponds(d, code)
            /\ \A e \in GetErrors : ENABLED GetFails(d, e)
        /\ taskPc[d] = "decode" => \A b \in Bodies : ENABLED Decode(d, b)
        /\ taskPc[d] = "sendErr" => ENABLED SendError(d)
        /\ taskPc[d] = "send" => ENABLED SendGauge(d)

\* one device's request is still outstanding while another device has
\* fetched, decoded and sent its whole reading
C18_Witness ==
    /\ collectPc = "running"
    /\ \E slow, other \in Devices :
        /\ taskPc[slow] = "get"
        /\ Finished(other)
        /\ ItemsOf(other) = ExpectedReading(other, BodyOf(body[other]))

\* C19: a Collect that has been called returns.
C19_CollectTerminates == (collectPc = "running") ~> (collectPc = "returned")

\* a Collect has returned over a device that answered 500 and a device
\* whose body read timed out
C19_Witness ==
    /\ collectPc = "returned"
    /\ \E d1, d2 \in Devices :
        /\ status[d1] = 500
        /\ BodyOf(body[d2]) = BodyTimeout
        /\ Finished(d1)
        /\ Finished(d2)

\* C20: every metric on the channel has a descriptor that Describe sends;
\* the one with the error descriptor has the counter type, every other one
\* the gauge type and the name of a measurement; and no device has two
\* metrics of the same descriptor.
C20_DescribedAndTyped ==
    /\ \A m \in BagToSet(ch) :
        /\ m.desc \in {DescribeSends[i] : i \in 1..Len(DescribeSends)}
        /\ IF m.desc.fqName = "awair_collection_errors_total"
           THEN m.valueType = "counter"
           ELSE m.valueType = "gauge" /\ m.desc.fqName \in AllGaugeNames
        /\ ch[m] = 1
    /\ Cardinality({<<m.labelValues, m.desc>> : m \in BagToSet(ch)})
            = BagCardinality(ch)

\* a finished cycle with the error counter of one device and the sixteen
\* gauges of another on the channel
C20_Witness ==
    /\ collectPc = "returned"
    /\ \E d1, d2 \in Devices :
        /\ BodyOf(body[d1]) = BodyScoreString
        /\ BagCardinality(ErrorsOf(d1)) = 1
        /\ BodyOf(body[d2]) = BodyZero
        /\ BagCardinality(GaugesOf(d2)) = 16

====
